---- MODULE Spec2Model ----
(***************************************************************************)
(* The command/response correlation layer of ublox_gps::Gps (gps.h).       *)
(* Caller threads run configure / read / poll / subscribe; the transport's *)
(* I/O thread runs readCallback over the frames it received.  The shared   *)
(* state is the worker pointer, the acknowledgment slot, the callback      *)
(* registry and its mutex.                                                 *)
(***************************************************************************)
EXTENDS Integers, Sequences, FiniteSets, TLC

\* ---------------------------------------------------------------- bounds
MaxCalls == 2      \* API calls started in one behaviour
MaxFrames == 2     \* frames the device puts on the stream in one behaviour

\* ------------------------------------------------------------- constants
Threads == {1, 2}                        \* caller threads
Types == {"A", "B"}                      \* message types T (CLASS_ID, MESSAGE_ID)
AckId == "ACK"                           \* reserved identity of the ACK frame
NackId == "NACK"                         \* reserved identity of the NACK frame
CfgId == "Cfg"                           \* a configuration message's identity
RateCfgId == "CfgMSG"                    \* the rate-configuration command
PrtId == "CfgPRT"                        \* the port configuration message
Identities == Types \cup {AckId, NackId}
AckStates == {"WAIT", "ACK", "NACK"}     \* enum { WAIT, ACK, NACK }
Free == 0                                \* callback_mutex_ is not held
NoToken == 0                             \* Callbacks::iterator()
NoValue == 0

VARIABLES
  worker_,          \* worker_ != 0
  acknowledge_,     \* the acknowledgment slot
  callbacks_,       \* the registry: token -> handler
  callback_mutex_,  \* Free or the thread holding it
  pc,               \* each caller thread's position
  call,             \* each caller thread's current call
  result,           \* each caller thread's return value
  sent,             \* per call id, what it gave worker_->send, in order
  iobuf,            \* frames left in the buffer readCallback is working on
  iocur,            \* the ACK-class frame routed and not yet noted in the slot
  nframes,          \* frames received so far
  ncalls,           \* calls started so far
  routed,           \* the decoded frame routed last, val its ordinal
  hist              \* history: per call id, what its handler saw

vars == <<worker_, acknowledge_, callbacks_, callback_mutex_, pc, call, result,
          sent, iobuf, iocur, nframes, ncalls, routed, hist>>

CallIds == 1..MaxCalls

\* ------------------------------------------------------------ call records
NoCall ==
  [id |-> 0, kind |-> "none", T |-> "none", wait |-> FALSE, ser |-> FALSE,
   init |-> "unk", waited |-> FALSE, timedOut |-> FALSE, obs |-> "none",
   sawAck |-> FALSE, ackSeen |-> "none", dropped |-> FALSE, start |-> 0,
   stale |-> FALSE]

NoResult == [ret |-> FALSE, tok |-> NoToken, msg |-> NoValue]

NoHist ==
  [kind |-> "none", T |-> "none", inserted |-> FALSE, erased |-> FALSE, wokeLen |-> -1,
   log |-> <<>>, sendsAtReg |-> -1, failed |-> FALSE, value |-> NoValue,
   answer |-> "none", intime |-> FALSE, by |-> 0]

NewCall(c, kind, T, wait, ser) ==
  [NoCall EXCEPT !.id = c, !.kind = kind, !.T = T, !.wait = wait, !.ser = ser]

\* Number of times call c handed bytes to worker_->send.
SendsOf(c) == Len(sent[c])

TypeOK ==
  /\ worker_ \in BOOLEAN
  /\ acknowledge_ \in AckStates
  /\ DOMAIN callbacks_ \subseteq CallIds
  /\ callback_mutex_ \in Threads \cup {Free}
  /\ nframes \in 0..MaxFrames
  /\ ncalls \in 0..MaxCalls
  /\ routed.val \in 0..MaxFrames

Init ==
  /\ worker_ = FALSE
  /\ acknowledge_ \in AckStates          \* the slot is not set by construction
  /\ callbacks_ = << >>
  /\ callback_mutex_ = Free
  /\ pc = [t \in Threads |-> "idle"]
  /\ call = [t \in Threads |-> NoCall]
  /\ result = [t \in Threads |-> NoResult]
  /\ sent = [c \in CallIds |-> << >>]
  /\ iobuf = 0
  /\ iocur = "none"
  /\ nframes = 0
  /\ ncalls = 0
  /\ routed = [id |-> "none", val |-> 0]
  /\ hist = [c \in CallIds |-> NoHist]

\* ------------------------------------------------------------- the registry
\* callbacks_.insert of a handler that was not freshly constructed: it still
\* holds the frame decoded last.
InsertStale(reg, tok, key, oneshot) ==
  [x \in DOMAIN reg \cup {tok} |->
     IF x = tok THEN [key |-> key, oneshot |-> oneshot, buf |-> routed.val]
     ELSE reg[x]]

\* callbacks_.insert(std::make_pair(key, handler)): a new entry under a new
\* token; entries of the same key stay (callbacks_ is a multimap).
Insert(reg, tok, key, oneshot) ==
  [x \in DOMAIN reg \cup {tok} |->
     IF x = tok THEN [key |-> key, oneshot |-> oneshot, buf |-> NoValue]
     ELSE reg[x]]

\* callbacks_.erase(callback): removes the entry the iterator points to.
EraseKey(reg, tok) == [x \in {y \in DOMAIN reg : reg[y].key # reg[tok].key} |-> reg[x]]
Erase(reg, tok) == [x \in DOMAIN reg \ {tok} |-> reg[x]]

\* The key subscribe<T> and read<T> register under:
\* std::make_pair(T::CLASS_ID, T::MESSAGE_ID).
KeyOfClassOnly(T) == "A"
KeyOf(T) == T

\* CallbackHandler_<T>::handle: a one-shot handler buffers the first
\* instance it is given, a persistent one hands every instance to its sink.
Handle(h, val) ==
  IF h.oneshot /\ h.buf = NoValue THEN [h EXCEPT !.buf = val] ELSE h

\* The entries a frame of identity id is routed to.
Matching(reg, id) == {x \in DOMAIN reg : reg[x].key = id}

\* forEach(identity, deliver)
Deliver(reg, id, val) ==
  [x \in DOMAIN reg |-> IF x \in Matching(reg, id) THEN Handle(reg[x], val)
                        ELSE reg[x]]

\* ------------------------------------------------------------ initialize
\* Gps::initialize: if (worker_) return; otherwise the worker is installed.
Initialize ==
  /\ ~worker_
  /\ worker_' = TRUE
  /\ UNCHANGED <<acknowledge_, callbacks_, callback_mutex_, pc, call, result,
                 sent, iobuf, iocur, nframes, ncalls, routed, hist>>

\* ------------------------------------------------------------ call entry
EntryPc(kind) ==
  CASE kind = "configure" -> "cfg"
    [] kind = "read" -> "read"
    [] kind = "poll" -> "poll"
    [] kind = "subscribe" -> "sub"
    [] kind = "subrate" -> "cfg"     \* setRate(...) is a configure of CfgMSG
    [] kind = "disableUart" -> "poll"  \* disableUart first polls CfgPRT

\* History: the ordinal of the last frame routed when a poll is issued.
StartOf(kind) == IF kind = "poll" THEN routed.val ELSE 0

\* History: when a configure is issued the slot holds the acknowledgment of
\* an ACK frame the dispatcher has noted.
StaleAck(kind) ==
  /\ kind = "configure"
  /\ acknowledge_ = "ACK"
  /\ routed.id = AckId
  /\ iocur = "none"

\* A caller thread starts an API call. Caller threads are interchangeable:
\* a call runs on the first thread that is free.
Call(t, kind, T, wait, ser) ==
  /\ pc[t] = "idle"
  /\ \A u \in Threads : u < t => pc[u] # "idle"
  /\ ncalls < MaxCalls
  /\ ncalls' = ncalls + 1
  /\ call' = [call EXCEPT ![t] = [NewCall(ncalls + 1, kind, T, wait, ser)
                                    EXCEPT !.start = StartOf(kind),
                                           !.stale = StaleAck(kind)]]
  /\ hist' = [hist EXCEPT ![ncalls + 1].kind = kind, ![ncalls + 1].T = T]
  /\ pc' = [pc EXCEPT ![t] = EntryPc(kind)]
  /\ result' = [result EXCEPT ![t] = NoResult]
  /\ UNCHANGED <<worker_, acknowledge_, callbacks_, callback_mutex_, sent,
                 iobuf, iocur, nframes, routed>>

CallConfigure(t) ==
  \E wait \in BOOLEAN, ser \in BOOLEAN : Call(t, "configure", CfgId, wait, ser)
CallRead(t) == \E T \in Types : Call(t, "read", T, FALSE, TRUE)
CallPoll(t) == \E T \in Types : Call(t, "poll", T, FALSE, TRUE)
CallSubscribe(t) == \E T \in Types : Call(t, "subscribe", T, FALSE, TRUE)
CallSubscribeAny(t) == \E T \in Identities : Call(t, "subscribe", T, FALSE, TRUE)
CallDisableUart(t) == Call(t, "disableUart", PrtId, TRUE, TRUE)
CallSubscribeRate(t) == \E T \in Types : Call(t, "subrate", T, TRUE, TRUE)

\* A call has returned when its thread is idle again; call[t] and result[t]
\* keep the finished call and its return value until the thread's next call.
Returned(t) == pc[t] = "idle" /\ call[t].id # 0

\* ------------------------------------------------------------- configure
\* Threads whose configure has reset the slot and not yet read it back.
InConfigure(t) == pc[t] \in {"cfg_write", "cfg_wait", "cfg_ret"}

\* Threads blocked in, or just released from, waitForAcknowledge before the
\* timeout elapsed.
InAckWindow(t) ==
  \/ pc[t] = "cfg_wait"
  \/ pc[t] = "cfg_ret" /\ ~call[t].timedOut

\* History: every configure in flight notes the event ev on the slot.
Observe(calls, ev, self) ==
  [u \in Threads |->
     IF u # self /\ InConfigure(u) THEN [calls[u] EXCEPT !.obs = ev] ELSE calls[u]]

\* The port configuration a CfgPRT frame decodes to: what the device
\* reports differs from frame to frame, its protocol masks are not zero.
PrtOf(val) == [baud |-> val, inMask |-> 1 + (val % 2), outMask |-> 3]

\* disableUart's mutation of the configuration it polled: the in and out
\* protocol masks are set to zero, nothing else is modified.
DisabledPrtCleared(prt) == [baud |-> 0, inMask |-> 0, outMask |-> 0]
DisabledPrt(prt) == [prt EXCEPT !.inMask = 0, !.outMask = 0]

\* The message a configure call serializes: the caller's, setRate's CfgMSG,
\* or disableUart's CfgPRT made from the configuration it polled.
CfgMessage(c) ==
  CASE c.kind = "subrate" -> RateCfgId
    [] c.kind = "disableUart" ->
         [type |-> PrtId, body |-> DisabledPrt(PrtOf(hist[c.id].value))]
    [] OTHER -> CfgId

\* configure's return value: return (acknowledge_ == ACK);
CfgResultAnyAnswer(ack) == ack # "WAIT"
CfgResultNotNack(ack) == ack # "NACK"
CfgResult(ack) == ack = "ACK"

\* if (!writer.write(message)) return false; the send is reached only when
\* the message serialized.
CfgSendsUnchecked(c) == TRUE
CfgMaySend(c) == c.ser

\* if (!wait) return true; otherwise waitForAcknowledge(default_timeout_).
CfgWaitsAlways(c) == TRUE
CfgWaits(c) == c.wait

\* Where a thread goes when its configure returns r: configure returns to the
\* caller; subscribe(callback, rate) goes on to subscribe<T>(callback) only
\* if setRate succeeded and otherwise returns Callbacks::iterator().
AfterConfigureUnchecked(t, r) ==
  /\ pc' = [pc EXCEPT ![t] = IF call[t].kind = "subrate" THEN "sub" ELSE "idle"]
  /\ result' = [result EXCEPT ![t] = [ret |-> r, tok |-> NoToken, msg |-> NoValue]]
  /\ hist' = [hist EXCEPT ![call[t].id].failed = ~r]
AfterConfigure(t, r) ==
  /\ pc' = [pc EXCEPT ![t] = IF call[t].kind = "subrate" /\ r THEN "sub" ELSE "idle"]
  /\ result' = [result EXCEPT ![t] = [ret |-> r, tok |-> NoToken, msg |-> NoValue]]
  /\ hist' = [hist EXCEPT ![call[t].id].failed = ~r]

\* waitForAcknowledge(timeout) blocks until the slot leaves WAIT or the
\* timeout elapses: whether the slot has left WAIT.
AckArrived(ack) == ack # "WAIT"

\* if (!worker_) return false;
CfgNoWorkerAfterReset(t) ==
  /\ pc[t] = "cfg"
  /\ ~worker_
  /\ acknowledge_' = "WAIT"
  /\ call' = [call EXCEPT ![t].init = "no"]
  /\ AfterConfigure(t, FALSE)
  /\ UNCHANGED <<worker_, callbacks_, callback_mutex_, sent, iobuf, iocur,
                 nframes, ncalls, routed>>
CfgNoWorker(t) ==
  /\ pc[t] = "cfg"
  /\ ~worker_
  /\ call' = [call EXCEPT ![t].init = "no"]
  /\ AfterConfigure(t, FALSE)
  /\ UNCHANGED <<worker_, acknowledge_, callbacks_, callback_mutex_, sent,
                 iobuf, iocur, nframes, ncalls, routed>>

\* acknowledge_ = WAIT;
CfgResetSkipped(t) ==
  /\ pc[t] = "cfg"
  /\ worker_
  /\ call' = [Observe(call, "reset", t) EXCEPT ![t].init = "yes", ![t].obs = "none"]
  /\ pc' = [pc EXCEPT ![t] = "cfg_write"]
  /\ UNCHANGED <<worker_, acknowledge_, callbacks_, callback_mutex_, result,
                 sent, iobuf, iocur, nframes, ncalls, routed, hist>>
CfgReset(t) ==
  /\ pc[t] = "cfg"
  /\ worker_
  /\ acknowledge_' = "WAIT"
  /\ call' = [Observe(call, "reset", t) EXCEPT ![t].init = "yes", ![t].obs = "none"]
  /\ pc' = [pc EXCEPT ![t] = "cfg_write"]
  /\ UNCHANGED <<worker_, callbacks_, callback_mutex_, result, sent, iobuf,
                 iocur, nframes, ncalls, routed, hist>>

\* if (!writer.write(message)) return false;
CfgWriteFail(t) ==
  /\ pc[t] = "cfg_write"
  /\ ~call[t].ser
  /\ AfterConfigure(t, FALSE)
  /\ UNCHANGED <<worker_, acknowledge_, callbacks_, callback_mutex_, call,
                 sent, iobuf, iocur, nframes, ncalls, routed>>

\* worker_->send(...); if (!wait) return true; otherwise the wait starts.
CfgSend(t) ==
  /\ pc[t] = "cfg_write"
  /\ CfgMaySend(call[t])
  /\ sent' = [sent EXCEPT ![call[t].id] = Append(@, [kind |-> "cfg", id |-> CfgMessage(call[t])])]
  /\ IF CfgWaits(call[t])
       THEN /\ pc' = [pc EXCEPT ![t] = "cfg_wait"]
            /\ call' = [call EXCEPT ![t].waited = TRUE]
            /\ UNCHANGED <<result, hist>>
       ELSE /\ AfterConfigure(t, TRUE)
            /\ UNCHANGED call
  /\ UNCHANGED <<worker_, acknowledge_, callbacks_, callback_mutex_, iobuf,
                 iocur, nframes, ncalls, routed>>

\* waitForAcknowledge: the wait ends because the slot left WAIT.
CfgWaitAck(t) ==
  /\ pc[t] = "cfg_wait"
  /\ AckArrived(acknowledge_)
  /\ pc' = [pc EXCEPT ![t] = "cfg_ret"]
  /\ UNCHANGED <<worker_, acknowledge_, callbacks_, callback_mutex_, call,
                 result, sent, iobuf, iocur, nframes, ncalls, routed, hist>>

\* waitForAcknowledge: the wait ends because the timeout elapsed.
CfgWaitNoTimeout(t) ==
  /\ pc[t] = "cfg_wait"
  /\ FALSE
  /\ UNCHANGED vars
CfgWaitTimeout(t) ==
  /\ pc[t] = "cfg_wait"
  /\ ~AckArrived(acknowledge_)
  /\ pc' = [pc EXCEPT ![t] = "cfg_ret"]
  /\ call' = [call EXCEPT ![t].timedOut = TRUE]
  /\ UNCHANGED <<worker_, acknowledge_, callbacks_, callback_mutex_, result,
                 sent, iobuf, iocur, nframes, ncalls, routed, hist>>

\* return (acknowledge_ == ACK);
CfgReturn(t) ==
  /\ pc[t] = "cfg_ret"
  /\ call' = [call EXCEPT ![t].ackSeen = acknowledge_]
  /\ AfterConfigure(t, CfgResult(acknowledge_))
  /\ UNCHANGED <<worker_, acknowledge_, callbacks_, callback_mutex_, sent,
                 iobuf, iocur, nframes, ncalls, routed>>

\* ------------------------------------------------------------------ read
\* CallbackHandler_<T>::get(): the instance the handler buffered.
Get(h) == h.buf

\* CallbackHandler::wait(timeout) returns true once the handler holds an
\* instance, false when the timeout elapses without one.
HandlerReady(h) == h.buf # NoValue

\* if (handler->wait(timeout)) { message = handler->get(); result = true; }
ReadResultNoCopy(h) == [ret |-> TRUE, tok |-> NoToken, msg |-> NoValue]
ReadResult(h) == [ret |-> TRUE, tok |-> NoToken, msg |-> Get(h)]

\* if (!worker_) return false;
ReadNoWorker(t) ==
  /\ pc[t] = "read"
  /\ ~worker_
  /\ call' = [call EXCEPT ![t].init = "no"]
  /\ pc' = [pc EXCEPT ![t] = "idle"]
  /\ result' = [result EXCEPT ![t] = NoResult]
  /\ hist' = [hist EXCEPT ![call[t].id].failed = TRUE]
  /\ UNCHANGED <<worker_, acknowledge_, callbacks_, callback_mutex_, sent,
                 iobuf, iocur, nframes, ncalls, routed>>

\* callback_mutex_.lock();
ReadLock(t) ==
  /\ pc[t] = "read"
  /\ worker_
  /\ callback_mutex_ = Free
  /\ callback_mutex_' = t
  /\ call' = [call EXCEPT ![t].init = "yes"]
  /\ pc' = [pc EXCEPT ![t] = "rd_ins"]
  /\ UNCHANGED <<worker_, acknowledge_, callbacks_, result, sent, iobuf, iocur,
                 nframes, ncalls, routed, hist>>

\* callbacks_.insert(...) of a new CallbackHandler_<T>(); callback_mutex_.unlock();
ReadInsertKeepsLock(t) ==
  /\ pc[t] = "rd_ins"
  /\ callbacks_' = Insert(callbacks_, call[t].id, KeyOf(call[t].T), TRUE)
  /\ call' = [call EXCEPT ![t].waited = TRUE]
  /\ hist' = [hist EXCEPT ![call[t].id].inserted = TRUE,
                          ![call[t].id].sendsAtReg = SendsOf(call[t].id)]
  /\ pc' = [pc EXCEPT ![t] = "rd_wait"]
  /\ UNCHANGED <<worker_, acknowledge_, callback_mutex_, result, sent, iobuf,
                 iocur, nframes, ncalls, routed>>
ReadInsert(t) ==
  /\ pc[t] = "rd_ins"
  /\ callbacks_' = Insert(callbacks_, call[t].id, KeyOf(call[t].T), TRUE)
  /\ callback_mutex_' = Free
  /\ call' = [call EXCEPT ![t].waited = TRUE]
  /\ hist' = [hist EXCEPT ![call[t].id].inserted = TRUE,
                          ![call[t].id].sendsAtReg = SendsOf(call[t].id)]
  /\ pc' = [pc EXCEPT ![t] = "rd_wait"]
  /\ UNCHANGED <<worker_, acknowledge_, result, sent, iobuf, iocur, nframes,
                 ncalls, routed>>

\* handler->wait(timeout) returns true: message = handler->get(); result = true;
ReadWaitOkAlone(t) ==
  /\ pc[t] = "rd_wait"
  /\ HandlerReady(callbacks_[call[t].id])
  /\ \A u \in Threads \ {t} : pc[u] # "rd_wait"
  /\ result' = [result EXCEPT ![t] = ReadResult(callbacks_[call[t].id])]
  /\ hist' = [hist EXCEPT ![call[t].id].value = ReadResult(callbacks_[call[t].id]).msg,
                          ![call[t].id].wokeLen = Len(hist[call[t].id].log)]
  /\ pc' = [pc EXCEPT ![t] = "rd_elock"]
  /\ UNCHANGED <<worker_, acknowledge_, callbacks_, callback_mutex_, call,
                 sent, iobuf, iocur, nframes, ncalls, routed>>
ReadWaitOk(t) ==
  /\ pc[t] = "rd_wait"
  /\ HandlerReady(callbacks_[call[t].id])
  /\ result' = [result EXCEPT ![t] = ReadResult(callbacks_[call[t].id])]
  /\ hist' = [hist EXCEPT ![call[t].id].value = ReadResult(callbacks_[call[t].id]).msg,
                          ![call[t].id].wokeLen = Len(hist[call[t].id].log)]
  /\ pc' = [pc EXCEPT ![t] = "rd_elock"]
  /\ UNCHANGED <<worker_, acknowledge_, callbacks_, callback_mutex_, call,
                 sent, iobuf, iocur, nframes, ncalls, routed>>

\* handler->wait(timeout) returns false: the timeout elapsed with no instance.
ReadWaitTimeout(t) ==
  /\ pc[t] = "rd_wait"
  /\ ~HandlerReady(callbacks_[call[t].id])
  /\ result' = [result EXCEPT ![t] = NoResult]
  /\ call' = [call EXCEPT ![t].timedOut = TRUE]
  /\ hist' = [hist EXCEPT ![call[t].id].failed = TRUE,
                          ![call[t].id].wokeLen = Len(hist[call[t].id].log)]
  /\ pc' = [pc EXCEPT ![t] = "rd_elock"]
  /\ UNCHANGED <<worker_, acknowledge_, callbacks_, callback_mutex_, sent,
                 iobuf, iocur, nframes, ncalls, routed>>

\* callback_mutex_.lock();
ReadEraseLock(t) ==
  /\ pc[t] = "rd_elock"
  /\ callback_mutex_ = Free
  /\ callback_mutex_' = t
  /\ pc' = [pc EXCEPT ![t] = "rd_erase"]
  /\ UNCHANGED <<worker_, acknowledge_, callbacks_, call, result, sent, iobuf,
                 iocur, nframes, ncalls, routed, hist>>

\* Where a thread goes when its read returns: read and poll return to the
\* caller; disableUart goes on to configure only if its poll succeeded.
AfterRead(t) ==
  IF call[t].kind = "disableUart" /\ result[t].ret THEN "cfg" ELSE "idle"

\* callbacks_.erase(callback); callback_mutex_.unlock(); return result;
ReadErase(t) ==
  /\ pc[t] = "rd_erase"
  /\ callbacks_' = Erase(callbacks_, call[t].id)
  /\ callback_mutex_' = Free
  /\ hist' = [hist EXCEPT ![call[t].id].erased = TRUE]
  /\ pc' = [pc EXCEPT ![t] = AfterRead(t)]
  /\ UNCHANGED <<worker_, acknowledge_, call, result, sent, iobuf, iocur,
                 nframes, ncalls, routed>>

\* ------------------------------------------------------------------ poll
\* poll(class_id, message_id): the request, which carries no payload, is
\* handed to the transport when there is one.
PollRequestOk(t) == worker_

\* if (!poll(ConfigT::CLASS_ID, ConfigT::MESSAGE_ID)) return false;
PollFailIgnored(t) ==
  /\ pc[t] = "poll"
  /\ ~PollRequestOk(t)
  /\ pc' = [pc EXCEPT ![t] = "read"]
  /\ UNCHANGED <<worker_, acknowledge_, callbacks_, callback_mutex_, call,
                 result, sent, iobuf, iocur, nframes, ncalls, routed, hist>>
PollFail(t) ==
  /\ pc[t] = "poll"
  /\ ~PollRequestOk(t)
  /\ call' = [call EXCEPT ![t].init = IF worker_ THEN "yes" ELSE "no"]
  /\ pc' = [pc EXCEPT ![t] = "idle"]
  /\ result' = [result EXCEPT ![t] = NoResult]
  /\ hist' = [hist EXCEPT ![call[t].id].failed = TRUE]
  /\ UNCHANGED <<worker_, acknowledge_, callbacks_, callback_mutex_, sent,
                 iobuf, iocur, nframes, ncalls, routed>>

\* The request was sent; return read(message, timeout);
PollSend(t) ==
  /\ pc[t] = "poll"
  /\ PollRequestOk(t)
  /\ sent' = [sent EXCEPT ![call[t].id] = Append(@, [kind |-> "poll", id |-> KeyOf(call[t].T)])]
  /\ pc' = [pc EXCEPT ![t] = "read"]
  /\ UNCHANGED <<worker_, acknowledge_, callbacks_, callback_mutex_, call, result,
                 iobuf, iocur, nframes, ncalls, routed, hist>>

\* ------------------------------------------------------------- subscribe
\* boost::mutex::scoped_lock lock(callback_mutex_);
SubLock(t) ==
  /\ pc[t] = "sub"
  /\ callback_mutex_ = Free
  /\ callback_mutex_' = t
  /\ pc' = [pc EXCEPT ![t] = "sub_ins"]
  /\ UNCHANGED <<worker_, acknowledge_, callbacks_, call, result, sent, iobuf,
                 iocur, nframes, ncalls, routed, hist>>

\* return callbacks_.insert(...) of a new CallbackHandler_<T>(callback);
SubInsert(t) ==
  /\ pc[t] = "sub_ins"
  /\ callbacks_' = Insert(callbacks_, call[t].id, KeyOf(call[t].T), FALSE)
  /\ callback_mutex_' = Free
  /\ hist' = [hist EXCEPT ![call[t].id].inserted = TRUE,
                          ![call[t].id].sendsAtReg = SendsOf(call[t].id)]
  /\ result' = [result EXCEPT ![t] = [ret |-> TRUE, tok |-> call[t].id, msg |-> NoValue]]
  /\ pc' = [pc EXCEPT ![t] = "idle"]
  /\ UNCHANGED <<worker_, acknowledge_, call, sent, iobuf, iocur, nframes,
                 ncalls, routed>>

\* ---------------------------------------------------------- readCallback
\* What the codec's search finds in the buffer: a frame bearing an identity
\* that either decodes (ok) or is corrupt.
FrameKinds == [id : Identities \cup {PrtId}, ok : BOOLEAN]

\* The slot value an ACK-class frame sets.
AckOfAny(id) == "ACK"
AckOf(id) == IF id = NackId THEN "NACK" ELSE "ACK"

\* A poll whose request went out and whose handler is not yet registered.
PollUnregistered(t) ==
  call[t].kind = "poll" /\ pc[t] \in {"read", "rd_ins"}

\* The transport hands readCallback a buffer holding n more frames.
RcStart ==
  /\ worker_
  /\ iobuf = 0
  /\ nframes < MaxFrames
  /\ \E n \in 1..(MaxFrames - nframes) : iobuf' = n
  /\ UNCHANGED <<worker_, acknowledge_, callbacks_, callback_mutex_, pc, call,
                 result, sent, iocur, nframes, ncalls, routed, hist>>

\* The search finds a corrupt frame: it is skipped, the loop goes on.
RcSkipDropsRest ==
  /\ iobuf > 0
  /\ iocur = "none"
  /\ \E f \in FrameKinds : ~f.ok
  /\ iobuf' = 0
  /\ nframes' = nframes + iobuf
  /\ UNCHANGED <<worker_, acknowledge_, callbacks_, callback_mutex_, pc, call,
                 result, sent, iocur, ncalls, routed, hist>>
RcSkip ==
  /\ iobuf > 0
  /\ iocur = "none"
  /\ \E f \in FrameKinds : ~f.ok
  /\ iobuf' = iobuf - 1
  /\ nframes' = nframes + 1
  /\ UNCHANGED <<worker_, acknowledge_, callbacks_, callback_mutex_, pc, call,
                 result, sent, iocur, ncalls, routed, hist>>

\* The search finds a frame that decodes, its identity one of ids: under the
\* registry lock it is handed to every handler registered for its identity.
RcRoute(ids) ==
  /\ iobuf > 0
  /\ iocur = "none"
  /\ callback_mutex_ = Free
  /\ \E k \in FrameKinds :
       /\ k.ok
       /\ k.id \in ids
       /\ LET f == [id |-> k.id, val |-> routed.val + 1] IN
            /\ callbacks_' = Deliver(callbacks_, f.id, f.val)
            /\ routed' = f
            /\ hist' = [c \in CallIds |->
                          IF c \in Matching(callbacks_, f.id)
                            THEN [hist[c] EXCEPT !.log = Append(@, f)]
                            ELSE hist[c]]
            /\ call' = [t \in Threads |->
                          IF PollUnregistered(t) /\ f.id = KeyOf(call[t].T)
                            THEN [call[t] EXCEPT !.dropped = TRUE]
                            ELSE call[t]]
            /\ IF f.id \in {AckId, NackId}
                 THEN iocur' = f.id /\ UNCHANGED <<iobuf, nframes>>
                 ELSE /\ iobuf' = iobuf - 1
                      /\ nframes' = nframes + 1
                      /\ UNCHANGED iocur
  /\ UNCHANGED <<worker_, acknowledge_, callback_mutex_, pc, result, sent,
                 ncalls>>

\* The device sends any frame: data, ACK or NACK.
RcDeliver == RcRoute(Identities)

\* The device sends data frames only (it was given no command to answer).
RcData == RcRoute(Types)

\* An ACK frame sets the slot to acknowledged, a NACK frame to rejected.
NoteAck ==
  /\ iocur # "none"
  /\ acknowledge_' = AckOf(iocur)
  /\ call' = [t \in Threads |->
                [call[t] EXCEPT
                   !.obs = IF InConfigure(t) THEN AckOf(iocur) ELSE @,
                   !.sawAck = @ \/ (InAckWindow(t) /\ iocur = AckId)]]
  /\ iobuf' = iobuf - 1
  /\ nframes' = nframes + 1
  /\ iocur' = "none"
  /\ UNCHANGED <<worker_, callbacks_, callback_mutex_, pc, result, sent,
                 ncalls, routed>>

RcAck == NoteAck /\ UNCHANGED hist

\* The configure commands the device was sent and has not answered yet.
Unanswered ==
  {c \in CallIds : /\ sent[c] # << >>
                   /\ sent[c][1].kind = "cfg"
                   /\ hist[c].answer = "none"}

\* The device answers commands in the order it received them.
Oldest(S) == CHOOSE c \in S : \A d \in S : c <= d

\* The wait of call c has not timed out: an answer noted now is within its
\* timeout.
InTime(c) == \E t \in Threads : call[t].id = c /\ ~call[t].timedOut

\* The search finds the device's answer, ACK or NACK, to a command it has
\* not answered; the frame is routed like any other.
RcReply == Unanswered # {} /\ RcRoute({AckId, NackId})

\* History of call x when the answer ans to command c is noted: c has its
\* answer, and every configure in flight has seen the answer to c last.
Noted(x, c, ans) ==
  [hist[x] EXCEPT
     !.answer = IF x = c THEN ans ELSE @,
     !.intime = IF x = c THEN InTime(c) ELSE @,
     !.by = IF \E t \in Threads : call[t].id = x /\ InConfigure(t) THEN c ELSE @]

\* The answer is noted in the slot; it answers the oldest command not yet
\* answered.
RcNote ==
  /\ NoteAck
  /\ hist' = [x \in CallIds |-> Noted(x, Oldest(Unanswered), AckOf(iocur))]

\* ------------------------------------------------------------------ Next
\* The I/O thread: readCallback over the buffers the transport hands it.
Dispatcher == RcStart \/ RcSkip \/ RcDeliver \/ RcAck

\* The I/O thread when the device sends no ACK-class frame.
DataDispatcher == RcStart \/ RcSkip \/ RcData

\* read, poll and subscribe<T>(callback) neither read nor write the slot:
\* where only they run, its value is fixed.
InitRegistry == Init /\ acknowledge_ = "WAIT"

\* The steps of configure up to the send.
CfgHead(t) == CfgNoWorker(t) \/ CfgReset(t) \/ CfgSend(t)

\* The blocking tail of configure.
CfgTail(t) == CfgWaitAck(t) \/ CfgWaitTimeout(t) \/ CfgReturn(t)

\* The steps of read.
ReadSteps(t) ==
  \/ ReadNoWorker(t) \/ ReadLock(t) \/ ReadInsert(t)
  \/ ReadWaitOk(t) \/ ReadWaitTimeout(t)
  \/ ReadEraseLock(t) \/ ReadErase(t)

\* The steps of poll before its read.
PollSteps(t) == PollFail(t) \/ PollSend(t)

\* The steps of subscribe<T>(callback).
SubSteps(t) == SubLock(t) \/ SubInsert(t)

\* Every operation, any two of them concurrently.
Next ==
  \/ Initialize
  \/ Dispatcher
  \/ \E t \in Threads :
       \/ CallConfigure(t) \/ CallRead(t) \/ CallPoll(t)
       \/ CallSubscribe(t) \/ CallSubscribeRate(t)
       \/ CfgHead(t) \/ CfgWriteFail(t) \/ CfgTail(t)
       \/ ReadSteps(t) \/ PollSteps(t) \/ SubSteps(t)

Spec == Init /\ [][Next]_vars

\* configure alone: callers only configure.
NextConfigure ==
  \/ Initialize
  \/ Dispatcher
  \/ \E t \in Threads :
       CallConfigure(t) \/ CfgHead(t) \/ CfgWriteFail(t) \/ CfgTail(t)

SpecConfigure == Init /\ [][NextConfigure]_vars

\* read and subscribe<T>(callback): the registry's users.
NextRead ==
  \/ Initialize
  \/ DataDispatcher
  \/ \E t \in Threads :
       CallRead(t) \/ CallSubscribe(t) \/ ReadSteps(t) \/ SubSteps(t)

SpecRead == InitRegistry /\ [][NextRead]_vars

\* poll alone.
NextPoll ==
  \/ Initialize
  \/ DataDispatcher
  \/ \E t \in Threads :
       \/ CallPoll(t) \/ PollSteps(t)
       \/ ReadLock(t) \/ ReadInsert(t) \/ ReadWaitOk(t) \/ ReadWaitTimeout(t)
       \/ ReadEraseLock(t) \/ ReadErase(t)

SpecPoll == InitRegistry /\ [][NextPoll]_vars

\* subscribe<T>(callback, rate) alone.
NextSubscribeRate ==
  \/ Initialize
  \/ Dispatcher
  \/ \E t \in Threads :
       CallSubscribeRate(t) \/ CfgHead(t) \/ CfgTail(t) \/ SubSteps(t)

SpecSubscribeRate == Init /\ [][NextSubscribeRate]_vars

\* configure and read side by side, with a device that sends nothing.
NextQuiet ==
  \/ Initialize
  \/ \E t \in Threads :
       \/ CallConfigure(t) \/ CallRead(t)
       \/ CfgHead(t) \/ CfgWriteFail(t) \/ CfgWaitTimeout(t) \/ CfgReturn(t)
       \/ ReadNoWorker(t) \/ ReadLock(t) \/ ReadInsert(t) \/ ReadWaitTimeout(t)
       \/ ReadEraseLock(t) \/ ReadErase(t)

SpecQuiet == Init /\ [][NextQuiet]_vars

\* The driver after initialize, before any call.
InitReady ==
  /\ worker_ = TRUE
  /\ acknowledge_ = "WAIT"
  /\ callbacks_ = << >>
  /\ callback_mutex_ = Free
  /\ pc = [t \in Threads |-> "idle"]
  /\ call = [t \in Threads |-> NoCall]
  /\ result = [t \in Threads |-> NoResult]
  /\ sent = [c \in CallIds |-> << >>]
  /\ iobuf = 0
  /\ iocur = "none"
  /\ nframes = 0
  /\ ncalls = 0
  /\ routed = [id |-> "none", val |-> 0]
  /\ hist = [c \in CallIds |-> NoHist]

\* The steps of read on an initialized driver.
ReadReadySteps(t) ==
  \/ ReadLock(t) \/ ReadInsert(t) \/ ReadWaitOk(t) \/ ReadWaitTimeout(t)
  \/ ReadEraseLock(t) \/ ReadErase(t)

\* Each caller thread calls read once, on an initialized driver whose device
\* sends data frames.
NextReadPair ==
  \/ RcStart \/ RcData
  \/ \E t \in Threads : (call[t].id = 0 /\ CallRead(t)) \/ ReadReadySteps(t)

\* The caller threads are scheduled: a thread that can take a step of its
\* read (its wait ends, the mutex is free) takes it.
SpecReadPair ==
  /\ InitReady
  /\ [][NextReadPair]_vars
  /\ \A t \in Threads : WF_vars(ReadReadySteps(t))

\* No caller thread is inside a call.
AllIdle == \A t \in Threads : pc[t] = "idle"

\* Calls one after the other, none overlapping another, on an initialized
\* driver whose device answers each command at most once, in order, and
\* sends data frames.
NextRecover ==
  \/ RcStart \/ RcData \/ RcReply \/ RcNote
  \/ \E t \in Threads :
       \/ AllIdle /\ (CallConfigure(t) \/ CallRead(t))
       \/ CfgReset(t) \/ CfgWriteFail(t) \/ CfgSend(t) \/ CfgTail(t)
       \/ ReadReadySteps(t)

SpecRecover == InitReady /\ [][NextRecover]_vars

\* configure calls, any two of them overlapping, on an initialized driver
\* whose device answers each command at most once, in order.
NextOverlap ==
  \/ RcStart \/ RcReply \/ RcNote
  \/ \E t \in Threads :
       \/ CallConfigure(t)
       \/ CfgReset(t) \/ CfgWriteFail(t) \/ CfgSend(t) \/ CfgTail(t)

SpecOverlap == InitReady /\ [][NextOverlap]_vars

\* The dispatcher over frames of every identity, with handlers subscribed
\* to any of them, the ACK and NACK messages included.
NextAck ==
  \/ Initialize
  \/ Dispatcher
  \/ \E t \in Threads : CallSubscribeAny(t) \/ SubSteps(t)

SpecAck == Init /\ [][NextAck]_vars

\* The steps of configure and read on an initialized driver.
BlockingSteps(t) ==
  \/ CfgReset(t) \/ CfgWriteFail(t) \/ CfgSend(t) \/ CfgTail(t)
  \/ ReadReadySteps(t)

\* Each caller thread calls configure or read once, on an initialized driver
\* whose device sends any frame, or none.
NextBlocking ==
  \/ RcStart \/ RcDeliver \/ RcAck
  \/ \E t \in Threads :
       \/ call[t].id = 0 /\ (CallConfigure(t) \/ CallRead(t))
       \/ BlockingSteps(t)

\* The clock advances and the caller threads are scheduled: a wait whose
\* timeout can elapse ends, a thread that can take its next step takes it.
SpecBlocking ==
  /\ InitReady
  /\ [][NextBlocking]_vars
  /\ \A t \in Threads : WF_vars(BlockingSteps(t))

\* readCallback's loop over the buffer it was handed.
RcLoop == RcSkip \/ RcDeliver \/ RcAck

\* The dispatcher over buffers of valid and corrupt frames, each caller
\* thread subscribing once, on an initialized driver.
NextSkip ==
  \/ RcStart \/ RcLoop
  \/ \E t \in Threads : (call[t].id = 0 /\ CallSubscribe(t)) \/ SubSteps(t)

\* The I/O thread and the caller threads are scheduled: readCallback goes on
\* while its buffer holds frames, a subscribe that can go on does.
SpecSkip ==
  /\ InitReady
  /\ [][NextSkip]_vars
  /\ WF_vars(RcLoop)
  /\ \A t \in Threads : WF_vars(SubSteps(t))

\* disableUart alone: the device reports its port configuration and answers
\* commands.
NextDisableUart ==
  \/ Initialize
  \/ RcStart \/ RcRoute({PrtId, AckId, NackId}) \/ RcAck
  \/ \E t \in Threads :
       \/ CallDisableUart(t) \/ PollSteps(t) \/ ReadReadySteps(t)
       \/ CfgReset(t) \/ CfgSend(t) \/ CfgTail(t)

SpecDisableUart == InitRegistry /\ [][NextDisableUart]_vars

\* ================================================================ claims
\* A returned configure(msg, wait) call of thread t that found a worker.
ConfigureDone(t, wait, ser) ==
  /\ Returned(t)
  /\ call[t].kind = "configure"
  /\ call[t].init = "yes"
  /\ call[t].wait = wait
  /\ call[t].ser = ser

C2_FireAndForget ==
  \A t \in Threads :
    ConfigureDone(t, FALSE, TRUE) =>
      /\ result[t].ret
      /\ sent[call[t].id] = <<[kind |-> "cfg", id |-> CfgId]>>
      /\ ~call[t].waited

\* A fire-and-forget configure has returned and a NACK arrived after it.
C2_Witness ==
  \E t \in Threads : ConfigureDone(t, FALSE, TRUE) /\ acknowledge_ = "NACK"

\* C3: when the message does not serialize, configure returns false, send is
\* never invoked for the call and the call does not enter the wait.
C3_SerializationFailure ==
  \A t \in Threads :
    \A wait \in BOOLEAN :
      ConfigureDone(t, wait, FALSE) =>
        /\ ~result[t].ret
        /\ sent[call[t].id] = << >>
        /\ ~call[t].waited

\* A configure asked to wait has returned on a message that did not serialize.
C3_Witness == \E t \in Threads : ConfigureDone(t, TRUE, FALSE)

\* C4: when there is no worker, configure and read return false in their
\* first step, without blocking: configure sends nothing and leaves the
\* acknowledgment slot as it was, read inserts no handler.
C4_NoWorkerReturnsAtOnce ==
  [][\A t \in Threads :
       (~worker_ /\ pc[t] \in {"cfg", "read"} /\ pc'[t] # pc[t]) =>
         /\ pc'[t] = "idle"
         /\ ~result'[t].ret
         /\ ~call'[t].waited
         /\ acknowledge_' = acknowledge_
         /\ sent' = sent
         /\ callbacks_' = callbacks_
         /\ callback_mutex_' = callback_mutex_]_vars

\* A configure and a read have both returned for want of a worker.
C4_Witness ==
  /\ ~worker_
  /\ \E t, u \in Threads :
       /\ Returned(t) /\ call[t].kind = "configure" /\ call[t].init = "no"
       /\ Returned(u) /\ call[u].kind = "read" /\ call[u].init = "no"

\* A returned read<T> call of thread t that found a worker.
ReadDone(t) == Returned(t) /\ call[t].kind = "read" /\ call[t].init = "yes"

\* C5: after read returns, having succeeded or timed out, its own handler is
\* no longer in the registry, and every other handler that was registered is
\* still there: an entry leaves the registry only by its own read's erase.
C5_ReadErasesOwnEntry ==
  /\ \A t \in Threads : ReadDone(t) => call[t].id \notin DOMAIN callbacks_
  /\ \A c \in CallIds :
       (hist[c].inserted /\ c \notin DOMAIN callbacks_) => hist[c].erased

\* A read has returned and a handler registered under the same key remains.
C5_Witness ==
  \E t \in Threads :
    /\ ReadDone(t)
    /\ \E c \in DOMAIN callbacks_ : callbacks_[c].key = call[t].T

\* C6: read<T> returns success if and only if a decoded frame of T's identity
\* was delivered to its handler, while registered, before the wait ended by
\* timeout; the value returned is the first frame delivered to the handler,
\* and with no such frame the call returns failure when the timeout elapses.
C6_ReadReturnsFirstFrame ==
  \A t \in Threads :
    ReadDone(t) =>
      LET h == hist[call[t].id]
      IN /\ result[t].ret <=> h.wokeLen > 0
         /\ result[t].ret =>
              /\ result[t].msg = h.log[1].val
              /\ h.log[1].id = call[t].T
         /\ ~result[t].ret => call[t].timedOut /\ result[t].msg = NoValue

\* A read returned the first of two frames delivered to its handler.
C6_Witness ==
  \E t \in Threads :
    ReadDone(t) /\ result[t].ret /\ Len(hist[call[t].id].log) = 2

\* A poll<T> call of thread t, running or returned.
IsPoll(t) == call[t].kind = "poll"

\* C7 as stated: in poll the one-shot handler is in the registry before the
\* request is handed to send, so a reply arriving at any moment after the
\* send is delivered to the handler and never dropped for lack of a listener.
C7_HandlerRegisteredBeforeSend ==
  \A t \in Threads :
    (IsPoll(t) /\ sent[call[t].id] # << >>) =>
      /\ hist[call[t].id].inserted
      /\ hist[call[t].id].sendsAtReg = 0
      /\ ~call[t].dropped

\* C8: poll sends the request-for-data frame and then performs read; if the
\* request could not be sent, poll returns failure at once, having inserted
\* no handler and without waiting.
C8_PollSendsThenReads ==
  \A t \in Threads :
    IsPoll(t) =>
      /\ pc[t] \in {"read", "rd_ins", "rd_wait", "rd_elock", "rd_erase"} =>
           sent[call[t].id] = <<[kind |-> "poll", id |-> call[t].T]>>
      /\ hist[call[t].id].inserted => hist[call[t].id].sendsAtReg = 1
      /\ (Returned(t) /\ call[t].init = "no") =>
           /\ ~result[t].ret
           /\ sent[call[t].id] = << >>
           /\ ~hist[call[t].id].inserted
           /\ ~call[t].waited

\* A poll has returned failure because its request could not be sent.
C8_Witness ==
  \E t \in Threads : IsPoll(t) /\ Returned(t) /\ call[t].init = "no"

\* A subscribe<T>(callback, rate) call of thread t, running or returned.
IsSubRate(t) == call[t].kind = "subrate"

C10_DeliveryInStreamOrder ==
  [][\A c \in CallIds :
       hist'[c].log =
         IF /\ routed' # routed
            /\ c \in DOMAIN callbacks_
            /\ hist[c].T = routed'.id
           THEN Append(hist[c].log, routed')
           ELSE hist[c].log]_vars

\* A handler has received two frames of its identity.
C10_Witness ==
  \E c \in CallIds : c \in DOMAIN callbacks_ /\ Len(hist[c].log) = 2

\* Call c is a read blocked in its wait whose handler holds a frame.
ReadHolds(c) ==
  /\ c \in DOMAIN callbacks_
  /\ HandlerReady(callbacks_[c])
  /\ \E t \in Threads : call[t].id = c /\ pc[t] = "rd_wait"

\* Read c has returned the first frame its handler was given, one of its own
\* identity, and its handler is out of the registry.
ReadGotOwn(c) ==
  /\ hist[c].erased
  /\ hist[c].wokeLen > 0
  /\ hist[c].value = hist[c].log[1].val
  /\ hist[c].log[1].id = hist[c].T

\* C11: when read<A> and read<B>, A # B, run on two threads and a frame for
\* each has reached its handler before either wait timed out, both calls
\* return success, each with a frame of its own identity: neither blocks or
\* starves the other.
C11_ConcurrentReadsBothSucceed ==
  \A c, d \in CallIds :
    (c < d /\ hist[c].T # hist[d].T /\ ReadHolds(c) /\ ReadHolds(d))
      ~> (ReadGotOwn(c) /\ ReadGotOwn(d))

\* Two reads of different types are both waiting, each holding its frame.
C11_Witness ==
  \E c, d \in CallIds :
    c # d /\ hist[c].T # hist[d].T /\ ReadHolds(c) /\ ReadHolds(d)

\* C12: a poll<T> never matches stale state. Issued after an earlier poll<T>
\* has returned, it returns neither the frame that satisfied the earlier call
\* nor one that arrived after it: what poll returns is the first frame given
\* to its own handler, a frame of T routed after the call was issued.
C12_PollIgnoresStaleFrames ==
  \A t \in Threads :
    (IsPoll(t) /\ Returned(t) /\ result[t].ret) =>
      LET h == hist[call[t].id]
      IN /\ result[t].msg > call[t].start
         /\ h.log # << >>
         /\ result[t].msg = h.log[1].val
         /\ h.log[1].id = call[t].T
         /\ \A c \in CallIds :
              (hist[c].value # NoValue /\ hist[c].value <= call[t].start) =>
                result[t].msg # hist[c].value

\* A second poll<T>, issued after the first was satisfied, has succeeded.
C12_Witness ==
  \E t \in Threads :
    /\ IsPoll(t) /\ Returned(t) /\ result[t].ret
    /\ \E c \in CallIds :
         /\ c # call[t].id
         /\ hist[c].T = call[t].T
         /\ hist[c].value # NoValue
         /\ hist[c].value <= call[t].start

\* The call before call c failed: by serialization failure, timeout or NACK.
AfterFailure(c) == c > 1 /\ hist[c - 1].failed

\* C13 as stated: no failure is fatal to the driver. After a call has failed,
\* a later configure(wait=true) that overlaps no other call and whose command
\* the device acknowledges within the timeout returns true, and a later read
\* whose frame arrives within the timeout returns that frame.
C13_FailuresAreLocal ==
  \A t \in Threads :
    /\ (/\ ConfigureDone(t, TRUE, TRUE)
        /\ AfterFailure(call[t].id)
        /\ hist[call[t].id].answer = "ACK"
        /\ hist[call[t].id].intime) => result[t].ret
    /\ (/\ ReadDone(t)
        /\ AfterFailure(call[t].id)
        /\ hist[call[t].id].wokeLen > 0) =>
          /\ result[t].ret
          /\ result[t].msg = hist[call[t].id].log[1].val

\* C14: the acknowledgment state is one slot shared by all calls. What a
\* configure(wait=true) returns is decided by the answer noted last before it
\* read the slot, the answer to its own command or to another call's: when
\* two such calls overlap, one can return the other's acknowledgment.
C14_SharedSlotRace ==
  \A t \in Threads :
    (/\ ConfigureDone(t, TRUE, TRUE)
     /\ hist[call[t].id].by # 0
     /\ call[t].obs # "reset") =>
       (result[t].ret <=> hist[hist[call[t].id].by].answer = "ACK")

\* The second of two overlapping configure calls, neither timing out, has
\* returned true on the ACK to the first call's command; its own command
\* was rejected.
C14_Witness ==
  \E t, u \in Threads :
    /\ t # u
    /\ ConfigureDone(t, TRUE, TRUE) /\ ConfigureDone(u, TRUE, TRUE)
    /\ ~call[t].timedOut /\ ~call[u].timedOut
    /\ hist[call[u].id].by = call[t].id
    /\ result[u].ret
    /\ hist[call[u].id].answer = "NACK"

\* C15: configure sets the slot to WAIT before it hands bytes to send: a
\* call sends only after its reset, and a configure(wait=true) returns true
\* only on an ACK noted after that reset. An ACK or NACK the dispatcher noted
\* before the call began does not decide its result.
C15_ResetBeforeSend ==
  \A t \in Threads :
    /\ (call[t].kind = "configure" /\ sent[call[t].id] # << >>) =>
         call[t].init = "yes"
    /\ pc[t] = "cfg_write" => (acknowledge_ = "WAIT" \/ call[t].obs # "none")
    /\ ConfigureDone(t, TRUE, TRUE) =>
         /\ call[t].obs = "none" => ~result[t].ret
         /\ result[t].ret => call[t].obs = "ACK"

\* A configure issued while the slot held an earlier ACK has waited and
\* returned false: no answer came after its reset.
C15_Witness ==
  \E t \in Threads :
    /\ ConfigureDone(t, TRUE, TRUE)
    /\ call[t].stale
    /\ call[t].obs = "none"
    /\ ~result[t].ret

\* C16: the dispatcher sets the slot to ACK exactly when the frame it
\* extracted bears the ACK identity and to NACK exactly when it bears the
\* NACK identity; a frame of another identity leaves the slot as it was; and
\* an ACK or NACK frame is also handed to the handlers registered under its
\* identity.
C16_AckFramesSetSlot ==
  [][/\ (routed' # routed /\ routed'.id \in Types) =>
         (acknowledge_' = acknowledge_ /\ iocur' = "none")
     /\ (routed' # routed /\ routed'.id \in {AckId, NackId}) =>
         /\ iocur' = routed'.id
         /\ \A c \in DOMAIN callbacks_ :
              callbacks_[c].key = routed'.id =>
                hist'[c].log = Append(hist[c].log, routed')
     /\ (iocur = AckId /\ iocur' = "none") => acknowledge_' = "ACK"
     /\ (iocur = NackId /\ iocur' = "none") => acknowledge_' = "NACK"
     /\ acknowledge_' # acknowledge_ =>
         /\ acknowledge_' = "ACK" => iocur = AckId
         /\ acknowledge_' = "NACK" => iocur = NackId
         /\ acknowledge_' # "WAIT"]_vars

\* A NACK frame has set the slot and reached a handler subscribed to NACK.
C16_Witness ==
  /\ acknowledge_ = "NACK"
  /\ routed.id = NackId
  /\ iocur = "none"
  /\ \E c \in DOMAIN callbacks_ :
       callbacks_[c].key = NackId /\ hist[c].log # << >>

\* C17: every blocking call terminates. A blocked configure(wait=true) is
\* released only by an ACK or NACK noted in the slot or by its timeout, a
\* blocked read only by a frame of its identity given to its handler or by
\* its timeout; with the clock advancing each blocked call returns; and a
\* configure call hands its command to send at most once: no retry.
C17_BlockingCallsTerminate ==
  /\ [][\A t \in Threads :
          /\ (pc[t] = "cfg_wait" /\ pc'[t] # "cfg_wait") =>
               \/ call'[t].timedOut
               \/ acknowledge_ \in {"ACK", "NACK"} /\ call[t].obs \in {"ACK", "NACK"}
          /\ (pc[t] = "rd_wait" /\ pc'[t] # "rd_wait") =>
               \/ call'[t].timedOut
               \/ /\ hist[call[t].id].log # << >>
                  /\ hist[call[t].id].log[1].id = call[t].T]_vars
  /\ [](\A c \in CallIds : hist[c].kind = "configure" => Len(sent[c]) <= 1)
  /\ \A t \in Threads : (pc[t] \in {"cfg_wait", "rd_wait"}) ~> (pc[t] = "idle")

\* A configure and a read, blocked together, have both returned on their
\* timeouts, the command sent once.
C17_Witness ==
  \E t, u \in Threads :
    /\ ConfigureDone(t, TRUE, TRUE) /\ call[t].timedOut
    /\ Len(sent[call[t].id]) = 1
    /\ ReadDone(u) /\ call[u].timedOut

\* C18: a corrupt frame in the dispatcher's buffer is dropped: it reaches
\* no handler and leaves the slot as it was. It does not stop processing:
\* only the corrupt frame is consumed, the dispatcher goes on to the end of
\* the buffer, and each valid frame it then extracts is handed to the
\* handlers registered for its identity.
C18_CorruptFrameSkipped ==
  /\ [][/\ (nframes' # nframes /\ routed' = routed /\ iocur = "none") =>
            /\ nframes' = nframes + 1
            /\ iobuf' = iobuf - 1
            /\ callbacks_' = callbacks_
            /\ hist' = hist
            /\ acknowledge_' = acknowledge_
            /\ iocur' = "none"
        /\ routed' # routed =>
            \A c \in DOMAIN callbacks_ :
              callbacks_[c].key = routed'.id =>
                hist'[c].log = Append(hist[c].log, routed')]_vars
  /\ (iobuf > 0) ~> (iobuf = 0)

\* A corrupt frame has been dropped, frames remain in the buffer and a
\* handler is registered.
C18_Witness ==
  /\ nframes > routed.val
  /\ iocur = "none"
  /\ iobuf > 0
  /\ DOMAIN callbacks_ # {}

\* C19: disableUart first polls the port configuration, then sends through
\* configure the configuration it polled with only the in and out protocol
\* masks changed, to zero; if the poll fails it returns failure and no
\* configuration message is sent.
C19_DisableUartPollsFirst ==
  \A c \in CallIds :
    hist[c].kind = "disableUart" =>
      /\ Len(sent[c]) <= 2
      /\ Len(sent[c]) >= 1 => sent[c][1] = [kind |-> "poll", id |-> PrtId]
      /\ Len(sent[c]) = 2 =>
           /\ hist[c].value # NoValue
           /\ sent[c][2].kind = "cfg"
           /\ sent[c][2].id.type = PrtId
           /\ sent[c][2].id.body.inMask = 0
           /\ sent[c][2].id.body.outMask = 0
           /\ sent[c][2].id.body.baud = PrtOf(hist[c].value).baud
      /\ \A t \in Threads :
           (call[t].id = c /\ Returned(t) /\ hist[c].value = NoValue) =>
             /\ ~result[t].ret
             /\ Len(sent[c]) <= 1

\* One disableUart failed in its poll and sent no configuration; another
\* polled, sent the configuration with its masks cleared and was acknowledged.
C19_Witness ==
  \E t \in Threads :
    /\ Returned(t) /\ call[t].kind = "disableUart" /\ result[t].ret
    /\ Len(sent[call[t].id]) = 2
    /\ \E c \in CallIds :
         /\ c # call[t].id
         /\ hist[c].kind = "disableUart"
         /\ hist[c].erased
         /\ hist[c].value = NoValue
         /\ Len(sent[c]) = 1

\* The threads inside a registry mutation: between lock and unlock.
Mutating == {t \in Threads : pc[t] \in {"rd_ins", "rd_erase", "sub_ins"}}

\* C20: insertions (subscribe, read), removals (read) and delivery exclude
\* one another under the one registry lock, and read does not hold the lock
\* while it waits. At most one thread is inside a registry mutation, and it
\* holds the lock; no thread outside one holds it; the registry changes only
\* in a step of the holder, which releases the lock; delivery happens only
\* when no thread is inside a mutation; and with reads waiting and no thread
\* inside a mutation the dispatcher can deliver the next frame.
C20_RegistryLock ==
  /\ [](/\ Cardinality(Mutating) <= 1
        /\ \A t \in Threads : t \in Mutating <=> callback_mutex_ = t
        /\ (iobuf > 0 /\ iocur = "none" /\ Mutating = {}) => ENABLED RcData)
  /\ [][/\ DOMAIN callbacks_' # DOMAIN callbacks_ =>
            (callback_mutex_ \in Mutating /\ callback_mutex_' = Free)
        /\ routed' # routed => Mutating = {}]_vars

\* A read is waiting, a frame has been delivered to its handler, and the
\* other thread is inside a registry mutation.
C20_Witness ==
  \E t, u \in Threads :
    /\ pc[t] = "rd_wait"
    /\ HandlerReady(callbacks_[call[t].id])
    /\ u \in Mutating

====
